---- MODULE Spec2Model ----
(***************************************************************************)
(* Model of the cachestudy simulations: the simpy variants                 *)
(* cache_ttl_extension.py, cache_dynamic_expiration.py, cache_stampede.py. *)
(*                                                                         *)
(* Simulated time is counted in ticks; TicksPerUnit ticks make one time    *)
(* unit of the program (so that math.ceil is not the identity).            *)
(* The simulation is single-threaded: one action is one stretch of code    *)
(* between two suspension points (yield) of a simpy process.  Processes    *)
(* scheduled at the same time run in any order, except that a newly        *)
(* spawned backend runs first (simpy starts a process with an urgent       *)
(* event).  simpy.Resource is modelled as simpy implements it: request()   *)
(* queues the request, release(req) removes req from the users only, and   *)
(* nothing but req.cancel(), which the programs never call, removes a      *)
(* request from the put queue.                                             *)
(***************************************************************************)
EXTENDS Integers, Sequences, FiniteSets, TLC

\* ---------------------------------------------------------------- bounds
\* backend processes spawned, last tick of the run, last tick of an arrival
NProc == 3
MaxTime == 5
MaxArrival == 2
\* direct store calls made, last tick and largest ttl of the store specification
MaxStoreOps == 2
MaxStoreTime == 2
MaxStoreTtl == 1

\* resolution of the clock: ticks per time unit of the program
TicksPerUnit == 2

\* ------------------------------------------------------- run parameters
\* SimulationParams (each one a command-line option of
\* cache_ttl_extension.py) and the module constants of the two other
\* programs, at values small enough to enumerate the runs
KEY_CACHE_PREFILL_MAX == 1
SIMULATION_TIME == 20
KEY_CACHE_TTL == 3
CACHE_TTL_EXT_PROB == 50
CACHE_WIPE_PART == 15
CACHE_CAPACITY == 1
CACHE_TIMEOUT == 2
DATABASE_CAPACITY == 1
DATABASE_TIMEOUT == 2
CACHE_WIPE_DELAY == 3

Variants == {"ttl_extension", "dynamic_expiration", "stampede"}
Res == {"cache", "database"}
Procs == 1..NProc
\* the value None, and the default ttl = None of KeyValueStorage.set
None == <<"None">>
NoTtl == 0 - 1
NoEntry == 0 - 1
NoReq == <<0, 0>>

VARIABLES
    variant,     \* which of the three simpy programs runs
    now,         \* env.now, in ticks
    store,       \* store[r] = [values |-> dict, expires_at |-> dict]
    resource,    \* resource[r] = [users |-> list, put_queue |-> list] (simpy.Resource)
    stats,       \* the Stats dataclass
    proc,        \* proc[p]: the state of backend process p (see IdleProc)
    wiped,       \* the scheduled wipe of cache_stampede.py has run
    raised,      \* the last direct store call raised KeyError
    lastset,     \* history: expires_at given by the latest set of a key, NoEntry after a delete
    lastcall,    \* history: the latest direct store call and the stores before it
    nops         \* number of direct store calls made

vars == <<variant, now, store, resource, stats, proc, wiped, raised, lastset, lastcall, nops>>

\* ------------------------------------------------------------ python dict
\* A dict is the sequence of its <<key, value>> items in insertion order.
DictHas(d, k) == \E i \in 1..Len(d) : d[i][1] = k

DictGet(d, k) == d[CHOOSE i \in 1..Len(d) : d[i][1] = k][2]

DictSet(d, k, v) ==
    IF DictHas(d, k)
    THEN [i \in 1..Len(d) |-> IF d[i][1] = k THEN <<k, v>> ELSE d[i]]
    ELSE Append(d, <<k, v>>)

DictDel(d, k) == SelectSeq(d, LAMBDA e : e[1] # k)

DictKeys(d) == [i \in 1..Len(d) |-> d[i][1]]

DictKeySet(d) == {d[i][1] : i \in 1..Len(d)}

EmptyStore == [values |-> <<>>, expires_at |-> <<>>]

\* math.ceil of a duration given in ticks, as a number of whole units
Ceil(x) == IF x >= 0 THEN (x + TicksPerUnit - 1) \div TicksPerUnit
                     ELSE -((-x) \div TicksPerUnit)

\* --------------------------------------------------- KeyValueStorage store
\* get that takes an entry for expired from the time expires_at on
GetStrict(s, t, k) ==
    IF ~DictHas(s.values, k) THEN None
    ELSE IF DictGet(s.expires_at, k) <= t THEN None
    ELSE DictGet(s.values, k)

\* KeyValueStorage.get at time t
Get(s, t, k) ==
    IF ~DictHas(s.values, k) THEN None
    ELSE IF DictGet(s.expires_at, k) < t THEN None
    ELSE DictGet(s.values, k)

\* set that leaves the expiration of a key it already holds as it was
SetKeepsExpiry(s, t, k, v, ttl) ==
    LET l == IF ttl = NoTtl THEN SIMULATION_TIME + 1 ELSE ttl
    IN  [values |-> DictSet(s.values, k, v),
         expires_at |-> IF DictHas(s.expires_at, k) THEN s.expires_at
                        ELSE DictSet(s.expires_at, k, t + l)]

\* KeyValueStorage.set at time t (ttl is None: SIMULATION_TIME + 1)
Set(s, t, k, v, ttl) ==
    LET l == IF ttl = NoTtl THEN SIMULATION_TIME + 1 ELSE ttl
    IN  [values |-> DictSet(s.values, k, v),
         expires_at |-> DictSet(s.expires_at, k, t + l)]

\* the store holds key k and time t is before its expires_at
LiveAt(s, t, k) ==
    /\ DictHas(s.values, k)
    /\ DictHas(s.expires_at, k)
    /\ DictGet(s.expires_at, k) > t

\* KeyValueStorage.ttl at time t (cache_ttl_extension.py only)
Ttl(s, t, k) ==
    IF ~DictHas(s.expires_at, k) THEN -2
    ELSE IF DictGet(s.expires_at, k) < t THEN -1
    ELSE Ceil(DictGet(s.expires_at, k) - t)

\* KeyValueStorage.delete: del self._values[key]; KeyError when missing
DeleteRaises(s, k) == ~DictHas(s.values, k)

Delete(s, k) == [s EXCEPT !.values = DictDel(@, k)]

\* random.random() < part, for every key of the pass: the keys it can select
\* (part in percent; random.random() is in [0, 1))
WipeChoices(part, ks) ==
    IF part <= 0 THEN {{}}
    ELSE IF part >= 100 THEN {ks}
    ELSE SUBSET ks

\* The loop of KeyValueStorage.wipe called on store r, over the key list ks
\* taken when the pass started, with sel the keys random.random() selects.
\* cache_ttl_extension.py deletes from self; the two other programs call
\* cache.delete(key) on the module-level cache, whatever self is.
RECURSIVE WipeLoop(_, _, _, _, _)
WipeLoop(st, v, r, ks, sel) ==
    IF ks = <<>> THEN [store |-> st, raised |-> FALSE]
    ELSE IF Head(ks) \notin sel THEN WipeLoop(st, v, r, Tail(ks), sel)
    ELSE IF v = "ttl_extension"
    THEN IF ~DictHas(st[r].expires_at, Head(ks))
         THEN [store |-> [st EXCEPT ![r].values = DictDel(@, Head(ks))],
               raised |-> TRUE]
         ELSE WipeLoop([st EXCEPT ![r] = [values |-> DictDel(@.values, Head(ks)),
                                          expires_at |-> DictDel(@.expires_at, Head(ks))]],
                       v, r, Tail(ks), sel)
    ELSE IF DeleteRaises(st["cache"], Head(ks))
         THEN [store |-> st, raised |-> TRUE]
         ELSE WipeLoop([st EXCEPT !["cache"] = Delete(@, Head(ks))],
                       v, r, Tail(ks), sel)

\* KeyValueStorage.wipe
Wipe(st, v, r, sel) == WipeLoop(st, v, r, DictKeys(st[r].values), sel)

\* ---------------------------------------------------------- simpy.Resource
Capacity(r) == IF r = "cache" THEN CACHE_CAPACITY ELSE DATABASE_CAPACITY

Timeout(r) == IF r = "cache" THEN CACHE_TIMEOUT ELSE DATABASE_TIMEOUT

\* the sampled service durations (response_time_min + lognormal term, or
\* normalvariate(mean, sigma)), in ticks
ServiceTimes(r) == IF r = "cache" THEN {1, 3} ELSE {1, 3}

InSeq(q, x) == \E i \in 1..Len(q) : q[i] = x

Remove(q, x) == SelectSeq(q, LAMBDA e : e # x)

\* a resource that serves the latest request of the put queue first
TriggerPutLast(R, cap) ==
    IF R.put_queue # <<>> /\ Len(R.users) < cap
    THEN [users |-> Append(R.users, R.put_queue[Len(R.put_queue)]),
          put_queue |-> SubSeq(R.put_queue, 1, Len(R.put_queue) - 1)]
    ELSE R

\* Resource._trigger_put / _do_put: the head of the put queue gets a slot
\* when one is free
TriggerPut(R, cap) ==
    IF R.put_queue # <<>> /\ Len(R.users) < cap
    THEN [users |-> Append(R.users, Head(R.put_queue)),
          put_queue |-> Tail(R.put_queue)]
    ELSE R

\* Resource.request(): the new request joins the put queue
Request(R, cap, id) ==
    TriggerPut([R EXCEPT !.put_queue = Append(@, id)], cap)

\* a release that leaves the request among the users
ReleaseKeepsSlot(R, cap, id) == TriggerPut(R, cap)

\* Resource.release(req): req leaves users if it is there (a request that
\* is still queued stays in the put queue), then the queue is served
Release(R, cap, id) ==
    TriggerPut([R EXCEPT !.users = Remove(@, id)], cap)

\* a request that counts as granted whether it holds a slot or not
TriggeredAlways(R, id) == TRUE

\* req.triggered
Triggered(R, id) == InSeq(R.users, id)

\* ------------------------------------------------------------------ Stats
EmptyStats == [requests |-> 0, ok |-> 0, fails |-> 0, data |-> <<>>,
               data_x |-> <<>>, data_y |-> <<>>, data_t |-> <<>>]

\* add_data that drops the row
AddDataNothing(S, timestamp, result, response_time, k) == S

\* Stats.add_data
AddData(S, timestamp, result, response_time, k) ==
    [S EXCEPT !.data = Append(@, <<timestamp, result, response_time, k>>)]

\* --------------------------------------------------------------- processes
\* pc: where backend stands (idle: not spawned, start: spawned, not yet run,
\*     cache_get, db_get, cache_set, ext_db_get, ext_cache_set: inside that
\*     call, done: returned)
\* ph: where the current process_get / process_set call stands
\*     (wait: at "yield req | env.timeout(...)", serve: at the service yield)
\* asked, admitted: when the current call asked for its slot and got it
\* issued, returned, ops: history of the calls of process_get / process_set
\*     the process made, of how they returned, and of the store operations
\*     they executed
\* rec: history, the index in stats.data of the row backend appended (0: none)
\* live: history, whether the cache held the key, not yet at its expires_at,
\*     when backend started
IdleProc == [pc |-> "idle", ph |-> "none", req |-> NoReq, timer |-> 0,
             key |-> 0, t0 |-> 0, val |-> None, dbval |-> None, ret |-> None,
             asked |-> 0, admitted |-> 0,
             issued |-> <<>>, returned |-> <<>>, ops |-> <<>>,
             rec |-> 0, live |-> FALSE]

ResOf(pcname) == IF pcname \in {"cache_get", "cache_set", "ext_cache_set"}
                 THEN "cache" ELSE "database"

IsGet(pcname) == pcname \in {"cache_get", "db_get", "ext_db_get"}

\* random.random() < args.CACHE_TTL_EXT_PROB
ExtChoices == IF CACHE_TTL_EXT_PROB <= 0 THEN {FALSE}
              ELSE IF CACHE_TTL_EXT_PROB >= 100 THEN {TRUE}
              ELSE BOOLEAN

\* the keys the arrival loop can draw
KeyGen(v) ==
    IF v = "dynamic_expiration"
    THEN {IF z < KEY_CACHE_PREFILL_MAX - 1 THEN z ELSE KEY_CACHE_PREFILL_MAX - 1 : z \in 1..KEY_CACHE_PREFILL_MAX}
    ELSE 0..KEY_CACHE_PREFILL_MAX

\* state handed from one piece of a step to the next
Ctx(P, R, S) == [P |-> P, resource |-> R, stats |-> S]

\* The first lines of process_get / process_set: req = self.request(), then
\* yield req | env.timeout(self._timeout)
StartCall(p, c, pcname, t) ==
    LET r  == ResOf(pcname)
        id == <<p, Len(c.P.issued) + 1>>
    IN  Ctx([c.P EXCEPT !.pc = pcname, !.ph = "wait", !.req = id,
                        !.timer = t + Timeout(r), !.asked = t,
                        !.issued = Append(@, pcname)],
            [c.resource EXCEPT ![r] = Request(@, Capacity(r), id)],
            c.stats)

\* backend returns v
Finish(c, v) ==
    Ctx([c.P EXCEPT !.pc = "done", !.ph = "none", !.req = NoReq, !.ret = v],
        c.resource, c.stats)

\* what the programs record when a request ends: a row of stats.data
\* (cache_ttl_extension.py), data_y and data_t (cache_dynamic_expiration.py),
\* nothing (cache_stampede.py)
Record(v, S, P, tag, y, t) ==
    IF v = "ttl_extension" THEN AddData(S, P.t0, tag, t - P.t0, P.key)
    ELSE IF v = "dynamic_expiration"
    THEN [S EXCEPT !.data_y = Append(@, y), !.data_t = Append(@, t - P.t0)]
    ELSE S

\* backend after "resp = yield from cache.process_get(env, key)".  ext is the
\* outcome of random.random() < args.CACHE_TTL_EXT_PROB, cs the cache store
\* at time t.
AfterCacheGet(v, p, c, ok, val, ext, t, cs) ==
    LET P == c.P
        hit == [c EXCEPT !.P.val = val, !.stats.ok = @ + 1]
    IN  IF ok /\ val # None
        THEN IF v = "ttl_extension" /\ ext
             THEN LET c2 == [hit EXCEPT !.stats =
                                Record(v, @, P, "cache_hit;cache_ttl_ext", 1, t)]
                  IN  IF Ttl(cs, t, P.key) > 0
                      THEN StartCall(p, c2, "ext_db_get", t)
                      ELSE Finish(c2, val)
             ELSE Finish([hit EXCEPT !.stats = Record(v, @, P, "cache_hit", 1, t)],
                         val)
        ELSE IF ~ok /\ v # "stampede"
        THEN Finish([c EXCEPT !.stats = Record(v, @, P, "cache_fail", 0, t)], None)
        ELSE StartCall(p, c, "db_get", t)

AfterDbGetRetries(v, p, c, ok, val, t) ==
    IF ~ok
    THEN StartCall(p, c, "db_get", t)
    ELSE StartCall(p, [c EXCEPT !.P.dbval = val], "cache_set", t)

AfterDbGetNoWriteBack(v, p, c, ok, val, t) ==
    IF ~ok
    THEN Finish([c EXCEPT !.stats =
                    Record(v, [@ EXCEPT !.fails = @ + 1], c.P,
                           "cache_miss;db_fail", 0, t)], None)
    ELSE Finish([c EXCEPT !.P.dbval = val, !.stats =
                    Record(v, [@ EXCEPT !.ok = @ + 1], c.P, "cache_miss;db_ok", 1, t)],
                val)

\* backend after "database_resp = yield from database.process_get(env, key)"
\* on the miss path
AfterDbGet(v, p, c, ok, val, t) ==
    IF ~ok
    THEN Finish([c EXCEPT !.stats =
                    Record(v, [@ EXCEPT !.fails = @ + 1], c.P,
                           "cache_miss;db_fail", 0, t)], None)
    ELSE StartCall(p, [c EXCEPT !.P.dbval = val], "cache_set", t)

AfterCacheSetReturnsCached(v, c, t) ==
    Finish([c EXCEPT !.stats =
               Record(v, [@ EXCEPT !.ok = @ + 1], c.P, "cache_miss;db_ok", 1, t)],
           c.P.val)

\* backend after "_ = yield from cache.process_set(...)" on the miss path
AfterCacheSet(v, c, t) ==
    Finish([c EXCEPT !.stats =
               Record(v, [@ EXCEPT !.ok = @ + 1], c.P, "cache_miss;db_ok", 1, t)],
           c.P.dbval)

AfterExtDbGetRetries(p, c, ok, val, t) ==
    IF ok
    THEN StartCall(p, [c EXCEPT !.P.dbval = val], "ext_cache_set", t)
    ELSE StartCall(p, c, "ext_db_get", t)

AfterExtDbGetAlwaysWrites(p, c, ok, val, t) ==
    StartCall(p, [c EXCEPT !.P.dbval = val], "ext_cache_set", t)

\* backend after "database_resp = yield from database.process_get(env, key)"
\* on the TTL-extension path
AfterExtDbGet(p, c, ok, val, t) ==
    IF ok
    THEN StartCall(p, [c EXCEPT !.P.dbval = val], "ext_cache_set", t)
    ELSE Finish(c, c.P.val)

\* backend after "_ = yield from cache.process_set(...)" on the TTL-extension
\* path
AfterExtCacheSet(c) == Finish(c, c.P.val)

\* history: the row of stats.data the step appended, S being the stats before
Noted(c, S) ==
    [c EXCEPT !.P.rec = IF Len(c.stats.data) > Len(S.data)
                        THEN Len(c.stats.data) ELSE @]

\* backend, from the return of its current call (with Response ok / val) to
\* its next yield or its return
BackendResume(v, p, c, ok, val, ext, t, cs) ==
    Noted(CASE c.P.pc = "cache_get" -> AfterCacheGet(v, p, c, ok, val, ext, t, cs)
            [] c.P.pc = "db_get" -> AfterDbGet(v, p, c, ok, val, t)
            [] c.P.pc = "cache_set" -> AfterCacheSet(v, c, t)
            [] c.P.pc = "ext_db_get" -> AfterExtDbGet(p, c, ok, val, t)
            [] c.P.pc = "ext_cache_set" -> AfterExtCacheSet(c),
          c.stats)

\* a lookup that reads the store as of the time the slot was granted
LookupAtAdmission(s, P, t) == Get(s, P.admitted, P.key)

\* process_get after its service delay: val = self.get(key), at time t
Lookup(s, P, t) == Get(s, t, P.key)

\* history: how a call of process_get / process_set returned
Returned(P, R, ok, val, t) ==
    [call |-> P.pc, req |-> P.req, ok |-> ok, val |-> val,
     held |-> Triggered(R[ResOf(P.pc)], P.req), at |-> t,
     service |-> IF ok THEN t - P.admitted ELSE 0]

\* history: a store operation executed inside a call
StoreOp(P, t) ==
    [req |-> P.req, op |-> IF IsGet(P.pc) THEN "get" ELSE "set",
     res |-> ResOf(P.pc), at |-> t]

\* ------------------------------------------------------------------- Init
NoCall == [op |-> "none"]

Value(k) == <<"Value", k>>

\* a prefill that writes the cache with the value of the next key
RECURSIVE PrefillCacheStale(_, _, _)
PrefillCacheStale(st, k, ttls) ==
    IF k >= KEY_CACHE_PREFILL_MAX THEN st
    ELSE PrefillCacheStale([st EXCEPT !["database"] = Set(@, 0, k, Value(k), NoTtl),
                                      !["cache"] = Set(@, 0, k, Value(k + 1), ttls[k])],
                           k + 1, ttls)

\* a prefill that writes the cache as it writes the database, with no ttl
RECURSIVE PrefillCacheNoTtl(_, _, _)
PrefillCacheNoTtl(st, k, ttls) ==
    IF k >= KEY_CACHE_PREFILL_MAX THEN st
    ELSE PrefillCacheNoTtl([st EXCEPT !["database"] = Set(@, 0, k, Value(k), NoTtl),
                                      !["cache"] = Set(@, 0, k, Value(k), NoTtl)],
                           k + 1, ttls)

\* the prefill loop of simulation(): database.set(key, val) and
\* cache.set(key, val, random.uniform(0, KEY_CACHE_TTL)), ttls[key] being the
\* drawn ttl
RECURSIVE Prefill(_, _, _)
Prefill(st, k, ttls) ==
    IF k >= KEY_CACHE_PREFILL_MAX THEN st
    ELSE Prefill([st EXCEPT !["database"] = Set(@, 0, k, Value(k), NoTtl),
                            !["cache"] = Set(@, 0, k, Value(k), ttls[k])],
                 k + 1, ttls)

Init ==
    /\ variant \in Variants
    /\ now = 0
    /\ \E ttls \in [0..(KEY_CACHE_PREFILL_MAX - 1) -> 0..KEY_CACHE_TTL] :
          store = Prefill([r \in Res |-> EmptyStore], 0, ttls)
    /\ resource = [r \in Res |-> [users |-> <<>>, put_queue |-> <<>>]]
    /\ stats = EmptyStats
    /\ proc = [p \in Procs |-> IdleProc]
    /\ wiped = FALSE
    /\ raised = FALSE
    /\ lastset = [r \in Res |-> [k \in 0..KEY_CACHE_PREFILL_MAX |-> NoEntry]]
    /\ lastcall = NoCall
    /\ nops = 0

\* ---------------------------------------------------------------- actions
\* env.process(backend(...)) schedules the start of the new process as an
\* urgent event: it runs before any other event of the current time
Starting == \E p \in Procs : proc[p].pc = "start"

\* simulation(): one turn of the arrival loop, after its yield
Arrive(k) ==
    /\ ~Starting
    /\ \E p \in Procs : proc[p].pc = "idle"
    /\ k \in KeyGen(variant)
    /\ now <= MaxArrival
    /\ LET p == CHOOSE q \in Procs :
                   proc[q].pc = "idle" /\ \A o \in Procs : proc[o].pc = "idle" => q <= o
       IN  proc' = [proc EXCEPT ![p].pc = "start", ![p].key = k]
    /\ stats' = [stats EXCEPT !.requests = @ + 1]
    /\ UNCHANGED <<variant, now, store, resource, wiped, raised, lastset, lastcall, nops>>

\* backend up to its first yield, inside cache.process_get
BackendStart(p) ==
    /\ proc[p].pc = "start"
    /\ LET S == IF variant = "dynamic_expiration"
                THEN [stats EXCEPT !.data_x = Append(@, now)] ELSE stats
           c == StartCall(p, Ctx([proc[p] EXCEPT !.t0 = now, !.live =
                                     LiveAt(store["cache"], now, proc[p].key)],
                                 resource, S),
                          "cache_get", now)
       IN  /\ proc' = [proc EXCEPT ![p] = c.P]
           /\ resource' = c.resource
           /\ stats' = c.stats
    /\ UNCHANGED <<variant, now, store, wiped, raised, lastset, lastcall, nops>>

\* process_get / process_set resumed with the request granted: the service
\* delay d is drawn and the process yields on it
Admit(p) ==
    /\ ~Starting
    /\ proc[p].ph = "wait"
    /\ Triggered(resource[ResOf(proc[p].pc)], proc[p].req)
    /\ \E d \in ServiceTimes(ResOf(proc[p].pc)) :
          proc' = [proc EXCEPT ![p].ph = "serve", ![p].timer = now + d,
                               ![p].admitted = now]
    /\ UNCHANGED <<variant, now, store, resource, stats, wiped, raised, lastset, lastcall, nops>>

\* process_get / process_set resumed by the timeout with the request not
\* granted: Error("Timeout"), and backend goes on from there
TimedOut(p) ==
    /\ ~Starting
    /\ proc[p].ph = "wait"
    /\ proc[p].timer = now
    /\ ~Triggered(resource[ResOf(proc[p].pc)], proc[p].req)
    /\ \E ext \in ExtChoices :
        LET r == ResOf(proc[p].pc)
            R == IF variant = "stampede" THEN resource
                 ELSE [resource EXCEPT ![r] = Release(@, Capacity(r), proc[p].req)]
            P == [proc[p] EXCEPT !.returned =
                     Append(@, Returned(proc[p], R, FALSE, None, now))]
            c == BackendResume(variant, p, Ctx(P, R, stats), FALSE, None, ext,
                               now, store["cache"])
        IN  /\ proc' = [proc EXCEPT ![p] = c.P]
            /\ resource' = c.resource
            /\ stats' = c.stats
    /\ UNCHANGED <<variant, now, store, wiped, raised, lastset, lastcall, nops>>

\* process_get / process_set resumed after the service delay: the store
\* operation, release(req), Success(val), and backend goes on from there
Served(p) ==
    /\ ~Starting
    /\ proc[p].ph = "serve"
    /\ proc[p].timer = now
    /\ \E ext \in ExtChoices :
        LET r   == ResOf(proc[p].pc)
            val == IF IsGet(proc[p].pc) THEN Lookup(store[r], proc[p], now) ELSE None
            st  == IF IsGet(proc[p].pc) THEN store
                   ELSE [store EXCEPT ![r] = Set(@, now, proc[p].key, proc[p].dbval,
                                                 KEY_CACHE_TTL)]
            R   == [resource EXCEPT ![r] = Release(@, Capacity(r), proc[p].req)]
            P   == [proc[p] EXCEPT !.returned =
                       Append(@, Returned(proc[p], R, TRUE, val, now)),
                                   !.ops = Append(@, StoreOp(proc[p], now))]
            c   == BackendResume(variant, p, Ctx(P, R, stats), TRUE, val, ext,
                                 now, st["cache"])
        IN  /\ store' = st
            /\ proc' = [proc EXCEPT ![p] = c.P]
            /\ resource' = c.resource
            /\ stats' = c.stats
    /\ UNCHANGED <<variant, now, wiped, raised, lastset, lastcall, nops>>

\* cache_stampede.py: env.process_lambda(lambda: cache.wipe(CACHE_WIPE_PART),
\* CACHE_WIPE_DELAY)
WipeDue == variant = "stampede" /\ ~wiped /\ now = CACHE_WIPE_DELAY

ScheduledWipe ==
    /\ ~Starting
    /\ WipeDue
    /\ \E sel \in WipeChoices(CACHE_WIPE_PART, DictKeySet(store["cache"].values)) :
          store' = Wipe(store, variant, "cache", sel).store
    /\ wiped' = TRUE
    /\ UNCHANGED <<variant, now, resource, stats, proc, raised, lastset, lastcall, nops>>

\* some process is scheduled at the current time
Urgent ==
    \/ Starting
    \/ WipeDue
    \/ \E p \in Procs :
          \/ proc[p].ph = "wait" /\ Triggered(resource[ResOf(proc[p].pc)], proc[p].req)
          \/ proc[p].ph \in {"wait", "serve"} /\ proc[p].timer = now

\* the scheduler moves the clock on when nothing is left at the current time
Tick ==
    /\ ~Urgent
    /\ now < MaxTime
    /\ now' = now + 1
    /\ UNCHANGED <<variant, store, resource, stats, proc, wiped, raised, lastset, lastcall, nops>>

Next ==
    \/ \E k \in 0..KEY_CACHE_PREFILL_MAX : Arrive(k)
    \/ \E p \in Procs : BackendStart(p)
    \/ \E p \in Procs : Admit(p)
    \/ \E p \in Procs : TimedOut(p)
    \/ \E p \in Procs : Served(p)
    \/ ScheduledWipe
    \/ Tick

Spec == Init /\ [][Next]_vars

\* ------------------------------------------------------------------------
\* A whole run of cache_ttl_extension.py in which the arrivals come at time
\* 0: env.run(until=SIMULATION_TIME) takes the events in order of time for
\* as long as a process is scheduled and the clock is before SIMULATION_TIME.
LiveInit == Init /\ variant = "ttl_extension"

\* simulation(): the turns of the arrival loop taken at time 0
LiveArrive(k) == now = 0 /\ Arrive(k)

\* the clock moves on to the next scheduled process
LiveTick ==
    /\ ~Urgent
    /\ \E p \in Procs : proc[p].ph \in {"wait", "serve"}
    /\ now < SIMULATION_TIME
    /\ now' = now + 1
    /\ UNCHANGED <<variant, store, resource, stats, proc, wiped, raised, lastset, lastcall, nops>>

\* a process scheduled at the current time runs
LiveStep ==
    \/ \E p \in Procs : BackendStart(p)
    \/ \E p \in Procs : Admit(p)
    \/ \E p \in Procs : TimedOut(p)
    \/ \E p \in Procs : Served(p)

LiveNext ==
    \/ \E k \in 0..KEY_CACHE_PREFILL_MAX : LiveArrive(k)
    \/ LiveStep
    \/ LiveTick

\* env.run never stops before SIMULATION_TIME while an event is scheduled:
\* a process that is due runs, and the clock moves on when none is
LiveSpec ==
    LiveInit /\ [][LiveNext]_vars /\ WF_vars(LiveStep) /\ WF_vars(LiveTick)

\* ------------------------------------------------------------------------
\* The store driven directly: any sequence of set / delete / wipe calls on
\* the two KeyValueStorage objects of a program, at any times.
Keys == 0..KEY_CACHE_PREFILL_MAX

StoreValues == {Value(k) : k \in Keys}

StoreTtls == {NoTtl} \cup 0..MaxStoreTtl

Parts == {0, CACHE_WIPE_PART, 100}

\* (the KeyValueStorage of cache_dynamic_expiration.py is, line for line,
\* the one of cache_stampede.py)
StoreInit ==
    /\ variant \in {"ttl_extension", "stampede"}
    /\ now = 0
    /\ store = [r \in Res |-> EmptyStore]
    /\ resource = [r \in Res |-> [users |-> <<>>, put_queue |-> <<>>]]
    /\ stats = EmptyStats
    /\ proc = [p \in Procs |-> IdleProc]
    /\ wiped = FALSE
    /\ raised = FALSE
    /\ lastset = [r \in Res |-> [k \in Keys |-> NoEntry]]
    /\ lastcall = NoCall
    /\ nops = 0

StoreSet(r, k, v, ttl) ==
    /\ nops < MaxStoreOps
    /\ store' = [store EXCEPT ![r] = Set(@, now, k, v, ttl)]
    /\ lastset' = [lastset EXCEPT ![r][k] =
                      now + (IF ttl = NoTtl THEN SIMULATION_TIME + 1 ELSE ttl)]
    /\ raised' = FALSE
    /\ lastcall' = [op |-> "set", r |-> r, k |-> k, v |-> v, ttl |-> ttl, at |-> now,
                    before |-> store]
    /\ nops' = nops + 1
    /\ UNCHANGED <<variant, now, resource, stats, proc, wiped>>

StoreDelete(r, k) ==
    /\ nops < MaxStoreOps
    /\ store' = IF DeleteRaises(store[r], k) THEN store
                ELSE [store EXCEPT ![r] = Delete(@, k)]
    /\ raised' = DeleteRaises(store[r], k)
    /\ lastset' = [lastset EXCEPT ![r][k] = NoEntry]
    /\ lastcall' = [op |-> "delete", r |-> r, k |-> k, at |-> now, before |-> store]
    /\ nops' = nops + 1
    /\ UNCHANGED <<variant, now, resource, stats, proc, wiped>>

StoreWipe(r, part) ==
    /\ nops < MaxStoreOps
    /\ \E sel \in WipeChoices(part, DictKeySet(store[r].values)) :
          /\ store' = Wipe(store, variant, r, sel).store
          /\ raised' = Wipe(store, variant, r, sel).raised
          /\ lastset' = [lastset EXCEPT ![r] =
                            [k \in Keys |-> IF k \in sel THEN NoEntry ELSE @[k]]]
    /\ lastcall' = [op |-> "wipe", r |-> r, part |-> part, at |-> now, before |-> store]
    /\ nops' = nops + 1
    /\ UNCHANGED <<variant, now, resource, stats, proc, wiped>>

StoreTick ==
    /\ now < MaxStoreTime
    /\ now' = now + 1
    /\ UNCHANGED <<variant, store, resource, stats, proc, wiped, raised, lastset, lastcall, nops>>

StoreNext ==
    \/ \E r \in Res, k \in Keys, v \in StoreValues, ttl \in StoreTtls :
          StoreSet(r, k, v, ttl)
    \/ \E r \in Res, k \in Keys : StoreDelete(r, k)
    \/ \E r \in Res, part \in Parts : StoreWipe(r, part)
    \/ StoreTick

StoreSpec == StoreInit /\ [][StoreNext]_vars

\* ------------------------------------------------------------------ claims
\* the process whose current call made request id on resource r
Caller(r, id) ==
    {p \in Procs : proc[p].req = id /\ ResOf(proc[p].pc) = r
                   /\ proc[p].ph \in {"wait", "serve"}}

\* the store operations process p executed for request id
OpsOf(p, id) == SelectSeq(proc[p].ops, LAMBDA o : o.req = id)

\* C1: a call whose admission timed out holds no slot when it returns, and
\* no slot is ever held by a request that no live caller will release.
C1_NoLeakedSlot ==
    /\ \A p \in Procs : \A i \in 1..Len(proc[p].returned) :
          ~proc[p].returned[i].ok => ~proc[p].returned[i].held
    /\ \A r \in Res : \A i \in 1..Len(resource[r].users) :
          Caller(r, resource[r].users[i]) # {}

\* C2: at most capacity requests hold a slot of a resource, and every held
\* slot is owned by exactly one request in flight between its admission and
\* its release.
C2_SlotsOwned ==
    \A r \in Res :
       /\ Len(resource[r].users) <= Capacity(r)
       /\ \A i, j \in 1..Len(resource[r].users) :
             resource[r].users[i] = resource[r].users[j] => i = j
       /\ \A i \in 1..Len(resource[r].users) :
             Cardinality(Caller(r, resource[r].users[i])) = 1

\* C3: in cache_ttl_extension.py a call that was admitted has waited one
\* service duration, executed exactly one store operation of its kind and
\* no longer holds its slot when it returns; a call that was not admitted
\* executed no store operation.
C3_AdmittedServesOnce ==
    variant = "ttl_extension" =>
      \A p \in Procs :
         /\ \A i \in 1..Len(proc[p].returned) :
               LET c == proc[p].returned[i]
                   o == OpsOf(p, c.req)
               IN  IF c.ok
                   THEN /\ Len(o) = 1
                        /\ o[1].op = (IF IsGet(c.call) THEN "get" ELSE "set")
                        /\ o[1].res = ResOf(c.call)
                        /\ o[1].at = c.at
                        /\ c.service \in ServiceTimes(ResOf(c.call))
                        /\ ~c.held
                        /\ ~Triggered(resource[ResOf(c.call)], c.req)
                   ELSE Len(o) = 0
         /\ \A n \in 1..Len(proc[p].ops) :
               \E i \in 1..Len(proc[p].returned) :
                  proc[p].returned[i].req = proc[p].ops[n].req

C3_Witness ==
    /\ variant = "ttl_extension"
    /\ \E p, q \in Procs :
          /\ \E i \in 1..Len(proc[p].returned) :
                proc[p].returned[i].ok /\ proc[p].returned[i].call = "cache_set"
          /\ \E j \in 1..Len(proc[q].returned) : ~proc[q].returned[j].ok

\* a caller that is still waiting for request id
Waiting(r, id) ==
    \E p \in Procs : proc[p].req = id /\ proc[p].ph = "wait" /\ ResOf(proc[p].pc) = r

\* C4: admission is first-come, first-served: a request is never granted a
\* slot while an earlier request, whose caller is still waiting, stays queued.
C4_Fifo ==
    [][\A r \in Res : \A i, j \in 1..Len(resource[r].put_queue) :
          (/\ i < j
           /\ Waiting(r, resource[r].put_queue[i])
           /\ Waiting(r, resource[r].put_queue[j])
           /\ Triggered(resource'[r], resource[r].put_queue[j]))
          => Triggered(resource'[r], resource[r].put_queue[i])]_vars

C4_Witness ==
    \E r \in Res : \E p, q \in Procs :
       /\ p # q
       /\ proc[p].ph = "serve" /\ ResOf(proc[p].pc) = r
       /\ proc[p].admitted > proc[p].asked
       /\ proc[q].ph = "wait" /\ ResOf(proc[q].pc) = r
       /\ InSeq(resource[r].put_queue, proc[q].req)
       /\ proc[q].asked < proc[p].admitted

\* C5: get(k) at time t returns a value iff the most recent set of k gave an
\* expires_at strictly greater than t and k was not deleted since.
C5_GetIffLive ==
    \A r \in Res : \A k \in Keys :
       (Get(store[r], now, k) # None)
          <=> (lastset[r][k] # NoEntry /\ lastset[r][k] > now)

C7_TtlThreeWay ==
    variant = "ttl_extension" =>
      \A r \in Res : \A k \in Keys :
         LET s == store[r]
             d == Ttl(s, now, k)
         IN  /\ ~DictHas(s.expires_at, k) => d = -2
             /\ (DictHas(s.expires_at, k) /\ now >= DictGet(s.expires_at, k))
                   => d = -1
             /\ (DictHas(s.expires_at, k) /\ now < DictGet(s.expires_at, k))
                   => (d > 0 /\ d * TicksPerUnit = DictGet(s.expires_at, k) - now)
             /\ (d > 0) <=> (Get(s, now, k) # None)

\* C8: wipe with part 0.0 leaves the store unchanged; wipe with part 1.0
\* empties the store it is called on, so that get on every key is absent;
\* whatever part is, only keys present when the pass started can go and no
\* other store is touched.
C8_WipeFraction ==
    lastcall.op = "wipe" =>
      LET r == lastcall.r
          o == IF lastcall.r = "cache" THEN "database" ELSE "cache"
      IN  /\ lastcall.part = 0 => store = lastcall.before
          /\ lastcall.part = 100 =>
                /\ store[r].values = <<>>
                /\ \A k \in Keys : Get(store[r], now, k) = None
          /\ DictKeySet(store[r].values) \subseteq DictKeySet(lastcall.before[r].values)
          /\ \A k \in DictKeySet(store[r].values) :
                /\ DictGet(store[r].values, k) = DictGet(lastcall.before[r].values, k)
                /\ DictGet(store[r].expires_at, k) = DictGet(lastcall.before[r].expires_at, k)
          /\ store[o] = lastcall.before[o]

\* C9: in each program, a request whose initial cache read failed with
\* Timeout ends there as a failure and never issues a database read.
C9_CacheFailNoDatabase ==
    \A p \in Procs :
       (Len(proc[p].returned) >= 1 /\ ~proc[p].returned[1].ok) =>
          /\ proc[p].pc = "done"
          /\ proc[p].ret = None
          /\ proc[p].issued = <<"cache_get">>
          /\ \A n \in 1..3 : ~InSeq(resource["database"].users, <<p, n>>)
                             /\ ~InSeq(resource["database"].put_queue, <<p, n>>)

\* the requests that have recorded their outcome
Recorded == {p \in Procs : proc[p].pc \in {"done", "ext_db_get", "ext_cache_set"}}

InFlight == {p \in Procs : proc[p].pc \notin {"idle", "done"}}

\* C10: in cache_ttl_extension.py every request that reached its outcome
\* has appended exactly one record and incremented exactly one of ok and
\* fails by one, so that with no request in flight
\* ok + fails = len(data) = requests.
C10_OneRecordOneCount ==
    variant = "ttl_extension" =>
       /\ Len(stats.data) = Cardinality(Recorded)
       /\ stats.ok + stats.fails = Cardinality(Recorded)
       /\ InFlight = {} =>
             (stats.ok + stats.fails = Len(stats.data)
              /\ Len(stats.data) = stats.requests)

\* the row of stats.data request p appended
Row(p) == stats.data[proc[p].rec]

\* the time at which the last call of request p returned
LastReturn(p) == proc[p].returned[Len(proc[p].returned)].at

\* C11: in cache_ttl_extension.py every row of stats.data carries the
\* arrival time and the key of its request and a latency that is not
\* negative, and once the request has completed that latency is the
\* completion time (the return of its last call) minus the arrival time, on
\* the TTL-extension path as on the others.
C11_LatencyIsCompletion ==
    variant = "ttl_extension" =>
       \A p \in Procs :
          proc[p].rec > 0 =>
             /\ Row(p)[1] = proc[p].t0
             /\ Row(p)[4] = proc[p].key
             /\ Row(p)[3] >= 0
             /\ proc[p].pc = "done" => Row(p)[3] = LastReturn(p) - proc[p].t0

\* the requests whose cache read was a miss: Success with no value
Missed(p) ==
    /\ Len(proc[p].returned) >= 1
    /\ proc[p].returned[1].ok
    /\ proc[p].returned[1].val = None

\* the requests whose database read after a miss timed out
DbFailed(p) ==
    /\ Len(proc[p].returned) >= 2
    /\ proc[p].returned[2].call = "db_get"
    /\ ~proc[p].returned[2].ok

\* C12: in cache_ttl_extension.py a request whose cache read was a miss
\* issues exactly one database read, as its second call; when that read
\* times out the request is over: it issued no further call (no retry, no
\* cache write), executed no set on a store, returned no value, its row is
\* tagged cache_miss;db_fail, and stats.fails counts exactly these
\* requests.
C12_MissReadsDatabaseOnce ==
    variant = "ttl_extension" =>
       /\ \A p \in Procs :
             /\ Missed(p) =>
                   /\ Len(proc[p].issued) >= 2
                   /\ \A n \in 1..Len(proc[p].issued) :
                         proc[p].issued[n] \in {"db_get", "ext_db_get"} <=> n = 2
                   /\ proc[p].issued[2] = "db_get"
             /\ DbFailed(p) =>
                   /\ proc[p].pc = "done"
                   /\ proc[p].ret = None
                   /\ proc[p].issued = <<"cache_get", "db_get">>
                   /\ \A n \in 1..Len(proc[p].ops) : proc[p].ops[n].op = "get"
                   /\ proc[p].rec > 0
                   /\ Row(p)[2] = "cache_miss;db_fail"
       /\ stats.fails = Cardinality({p \in Procs : DbFailed(p)})

C12_Witness ==
    /\ variant = "ttl_extension"
    /\ \E p \in Procs : Missed(p) /\ DbFailed(p)

\* C13: in cache_ttl_extension.py a request whose database read after a
\* miss succeeded goes on to exactly one cache write of the value read, and
\* when that write returns the request is over: ok is incremented, its row
\* is tagged cache_miss;db_ok and it returns the database value, whether
\* the write was served or timed out.  A served write leaves the key in the
\* cache with the value read and expires_at = (time of the write) +
\* KEY_CACHE_TTL; a write that timed out leaves both stores as they were.
C13_WriteBack ==
    [][variant = "ttl_extension" =>
         \A p \in Procs :
            /\ (proc[p].pc = "db_get" /\ Len(proc'[p].returned) = 2
                    /\ proc'[p].returned[2].ok) =>
                  /\ proc'[p].pc = "cache_set"
                  /\ proc'[p].issued = <<"cache_get", "db_get", "cache_set">>
                  /\ proc'[p].dbval = proc'[p].returned[2].val
            /\ (proc[p].pc = "cache_set" /\ Len(proc'[p].returned) = 3) =>
                  /\ proc'[p].pc = "done"
                  /\ proc'[p].issued = <<"cache_get", "db_get", "cache_set">>
                  /\ proc'[p].ret = proc[p].returned[2].val
                  /\ stats'.ok = stats.ok + 1
                  /\ stats'.fails = stats.fails
                  /\ stats'.data = Append(stats.data,
                                          <<proc[p].t0, "cache_miss;db_ok",
                                            now - proc[p].t0, proc[p].key>>)
                  /\ IF proc'[p].returned[3].ok
                     THEN /\ DictGet(store'["cache"].expires_at, proc[p].key)
                                = now + KEY_CACHE_TTL
                          /\ DictGet(store'["cache"].values, proc[p].key)
                                = proc[p].returned[2].val
                          /\ store'["database"] = store["database"]
                     ELSE store' = store]_vars

\* a request whose write-back timed out has returned the database value
C13_Witness ==
    /\ variant = "ttl_extension"
    /\ \E p \in Procs :
          /\ proc[p].pc = "done"
          /\ Len(proc[p].returned) = 3
          /\ proc[p].returned[3].call = "cache_set"
          /\ ~proc[p].returned[3].ok
          /\ proc[p].ret = Value(proc[p].key)
          /\ Row(p)[2] = "cache_miss;db_ok"

\* every hit recorded so far was selected for TTL extension, as it is with
\* CACHE_TTL_EXT_PROB = 1.0
AllExtended ==
    \A n \in 1..Len(stats.data) : stats.data[n][2] # "cache_hit"

\* the keys the prefill loop wrote to the database
InDatabase(k) == k < KEY_CACHE_PREFILL_MAX

C15_TimestampsNonDecreasing ==
    variant = "ttl_extension" =>
       \A i, j \in 1..Len(stats.data) :
          i < j => stats.data[i][1] <= stats.data[j][1]

\* C16: in cache_ttl_extension.py, as long as no request has arrived, every
\* key of the prefill is in the database with an entry that no time of the
\* run reaches (database.get returns its value at every time of the run)
\* and in the cache with an expires_at within [0, KEY_CACHE_TTL], so that
\* cache.get returns absent at every time after KEY_CACHE_TTL.
C16_PrefillExpires ==
    (variant = "ttl_extension" /\ stats.requests = 0) =>
       \A k \in 0..(KEY_CACHE_PREFILL_MAX - 1) :
          /\ DictHas(store["database"].values, k)
          /\ DictGet(store["database"].expires_at, k) > SIMULATION_TIME
          /\ \A t \in 0..SIMULATION_TIME :
                Get(store["database"], t, k) = Value(k)
          /\ DictHas(store["cache"].values, k)
          /\ DictGet(store["cache"].values, k) = Value(k)
          /\ DictGet(store["cache"].expires_at, k) \in 0..KEY_CACHE_TTL
          /\ \A t \in (KEY_CACHE_TTL + 1)..SIMULATION_TIME :
                Get(store["cache"], t, k) = None
          /\ now > KEY_CACHE_TTL =>
                (Get(store["cache"], now, k) = None
                 /\ Get(store["database"], now, k) = Value(k))

\* no arrivals, and the clock is past KEY_CACHE_TTL
C16_Witness ==
    /\ variant = "ttl_extension"
    /\ stats.requests = 0
    /\ now > KEY_CACHE_TTL
    /\ Get(store["cache"], now, 0) = None
    /\ Get(store["database"], now, 0) = Value(0)

\* the outcome tags of cache_ttl_extension.py that count a request as ok
SuccessTags == {"cache_hit", "cache_hit;cache_ttl_ext", "cache_miss;db_ok"}

CacheWrites(p) ==
    Cardinality({n \in 1..Len(proc[p].ops) :
                    proc[p].ops[n].op = "set" /\ proc[p].ops[n].res = "cache"})

\* C18: in cache_ttl_extension.py a completed request whose hit was
\* selected for TTL extension and that went on to the database re-read has
\* written the cache once if that read succeeded and not at all if it
\* timed out.
C18_ExtensionWritesIffRead ==
    variant = "ttl_extension" =>
       \A p \in Procs :
          (/\ proc[p].pc = "done"
           /\ Len(proc[p].issued) >= 2
           /\ proc[p].issued[2] = "ext_db_get") =>
             /\ proc[p].returned[2].ok => CacheWrites(p) = 1
             /\ ~proc[p].returned[2].ok => CacheWrites(p) = 0

\* C18, amended: in cache_ttl_extension.py a hit selected for TTL extension
\* counts one ok, there and then, and goes on to one database read exactly
\* when expires_at is later than the time of the hit; otherwise the request
\* is over and the stores are as they were.  The read changes neither the
\* stores nor the counters, and exactly when it succeeds the request issues
\* one cache write of the value read; when it times out the request is
\* over.  The write over, served or not, the request is over, returning the
\* value of the hit with the counters as they were: a served write leaves
\* the key with the value read and expires_at = (time of the write) +
\* KEY_CACHE_TTL, a write that timed out leaves the stores as they were.
C18_ExtensionPath ==
    [][variant = "ttl_extension" =>
         \A p \in Procs :
            /\ (/\ proc[p].pc = "cache_get"
                /\ proc'[p].rec > 0
                /\ stats'.data[proc'[p].rec][2] = "cache_hit;cache_ttl_ext") =>
                  /\ stats'.ok = stats.ok + 1
                  /\ stats'.fails = stats.fails
                  /\ store' = store
                  /\ IF DictGet(store["cache"].expires_at, proc[p].key) > now
                     THEN /\ proc'[p].pc = "ext_db_get"
                          /\ proc'[p].issued = <<"cache_get", "ext_db_get">>
                     ELSE /\ proc'[p].pc = "done"
                          /\ proc'[p].issued = <<"cache_get">>
                          /\ proc'[p].ret = proc'[p].returned[1].val
            /\ (proc[p].pc = "ext_db_get" /\ Len(proc'[p].returned) = 2) =>
                  /\ stats' = stats
                  /\ store' = store
                  /\ IF proc'[p].returned[2].ok
                     THEN /\ proc'[p].pc = "ext_cache_set"
                          /\ proc'[p].issued
                                = <<"cache_get", "ext_db_get", "ext_cache_set">>
                          /\ proc'[p].dbval = proc'[p].returned[2].val
                     ELSE /\ proc'[p].pc = "done"
                          /\ proc'[p].issued = proc[p].issued
                          /\ proc'[p].ret = proc[p].returned[1].val
            /\ (proc[p].pc = "ext_cache_set" /\ Len(proc'[p].returned) = 3) =>
                  /\ proc'[p].pc = "done"
                  /\ proc'[p].issued = proc[p].issued
                  /\ proc'[p].ret = proc[p].returned[1].val
                  /\ stats' = stats
                  /\ IF proc'[p].returned[3].ok
                     THEN /\ DictGet(store'["cache"].expires_at, proc[p].key)
                                = now + KEY_CACHE_TTL
                          /\ DictGet(store'["cache"].values, proc[p].key)
                                = proc[p].returned[2].val
                          /\ store'["database"] = store["database"]
                     ELSE store' = store]_vars

\* an extension whose database read succeeded and whose cache write timed
\* out: the request is over and has written nothing
C18_Witness ==
    /\ variant = "ttl_extension"
    /\ \E p \in Procs :
          /\ proc[p].pc = "done"
          /\ Len(proc[p].returned) = 3
          /\ proc[p].returned[2].call = "ext_db_get"
          /\ proc[p].returned[2].ok
          /\ ~proc[p].returned[3].ok
          /\ CacheWrites(p) = 0
          /\ proc[p].ret = Value(proc[p].key)

\* C19: a served process_get returns what the store holds for the key at
\* the time of the lookup, after the service delay: the value when the key
\* is there with expires_at not yet passed at that time, absent otherwise,
\* whatever the store held when the slot was granted or the call was made.
C19_LookupAfterService ==
    [][\A p \in Procs :
          (/\ IsGet(proc[p].pc)
           /\ proc[p].ph = "serve"
           /\ Len(proc'[p].returned) = Len(proc[p].returned) + 1) =>
             LET s == store[ResOf(proc[p].pc)]
                 k == proc[p].key
                 c == proc'[p].returned[Len(proc'[p].returned)]
             IN  /\ c.ok
                 /\ c.at = now
                 /\ c.at = proc[p].admitted + c.service
                 /\ IF DictHas(s.values, k) /\ DictGet(s.expires_at, k) >= c.at
                    THEN c.val = DictGet(s.values, k)
                    ELSE c.val = None
                 /\ store' = store]_vars

\* a cache read that found the entry expired at the lookup although it was
\* live when the slot was granted
C19_Witness ==
    \E p \in Procs :
       /\ Len(proc[p].returned) >= 1
       /\ proc[p].returned[1].ok
       /\ proc[p].returned[1].val = None
       /\ DictHas(store["cache"].values, proc[p].key)
       /\ DictGet(store["cache"].expires_at, proc[p].key)
             > proc[p].returned[1].at - proc[p].returned[1].service
       /\ DictGet(store["cache"].expires_at, proc[p].key) < proc[p].returned[1].at

\* a cache read that returned a value written while it waited for its slot
C19_SeesLaterWrite ==
    \E q, o \in Procs : \E n \in 1..Len(proc[o].ops) :
       /\ Len(proc[q].returned) >= 1
       /\ proc[q].returned[1].ok
       /\ proc[q].returned[1].val # None
       /\ proc[q].returned[1].at > KEY_CACHE_TTL
       /\ proc[o].ops[n].op = "set"
       /\ proc[o].ops[n].res = "cache"
       /\ proc[o].key = proc[q].key
       /\ proc[o].ops[n].at >= proc[q].t0
       /\ proc[o].ops[n].at <= proc[q].returned[1].at

\* C20: a process_get / process_set that returns Error(Timeout) leaves both
\* stores as they were, no store operation is ever executed for a call that
\* timed out, whether or not its request is granted a slot afterwards, and
\* a store changes only by the set of a call that holds a slot at the end of
\* its service delay (or by the scheduled wipe of cache_stampede.py).
C20_TimeoutMutatesNothing ==
    [][/\ \A p \in Procs :
            (/\ Len(proc'[p].returned) = Len(proc[p].returned) + 1
             /\ ~proc'[p].returned[Len(proc'[p].returned)].ok) =>
               /\ store' = store
               /\ proc'[p].ops = proc[p].ops
       /\ \A p \in Procs : \A i \in 1..Len(proc'[p].returned) :
            ~proc'[p].returned[i].ok =>
               \A q \in Procs : \A n \in 1..Len(proc'[q].ops) :
                  proc'[q].ops[n].req # proc'[p].returned[i].req
       /\ \A r \in Res :
            store'[r] # store[r] =>
               \/ variant = "stampede" /\ r = "cache" /\ ~wiped /\ wiped'
               \/ \E p \in Procs :
                     /\ proc[p].ph = "serve"
                     /\ proc[p].timer = now
                     /\ ~IsGet(proc[p].pc)
                     /\ ResOf(proc[p].pc) = r
                     /\ InSeq(resource[r].users, proc[p].req)
                     /\ Len(proc'[p].ops) = Len(proc[p].ops) + 1
                     /\ proc'[p].ops[Len(proc'[p].ops)].req = proc[p].req]_vars

\* a call that timed out, whose request was granted a slot afterwards and
\* holds it, with no store operation executed for it
C20_Witness ==
    \E p \in Procs : \E i \in 1..Len(proc[p].returned) :
       /\ ~proc[p].returned[i].ok
       /\ InSeq(resource[ResOf(proc[p].returned[i].call)].users,
                proc[p].returned[i].req)
       /\ \A n \in 1..Len(proc[p].ops) : proc[p].ops[n].req # proc[p].returned[i].req
       /\ proc[p].pc = "done"

\* the number of calls of request p among the given kinds
Issued(p, kinds) ==
    Cardinality({n \in 1..Len(proc[p].issued) : proc[p].issued[n] \in kinds})

\* C21: a request of cache_ttl_extension.py issues at most one cache read,
\* at most one database read and at most one cache write, and after a call
\* of it returned Error(Timeout) it issues no call on that resource again.
C21_NoRetry ==
    variant = "ttl_extension" =>
       \A p \in Procs :
          /\ Issued(p, {"cache_get"}) <= 1
          /\ Issued(p, {"db_get", "ext_db_get"}) <= 1
          /\ Issued(p, {"cache_set", "ext_cache_set"}) <= 1
          /\ Len(proc[p].issued) <= 3
          /\ \A i \in 1..Len(proc[p].returned) :
                ~proc[p].returned[i].ok =>
                   \A j \in (i + 1)..Len(proc[p].issued) :
                      /\ proc[p].issued[j] # proc[p].issued[i]
                      /\ IsGet(proc[p].issued[j]) # IsGet(proc[p].issued[i])
                         \/ ResOf(proc[p].issued[j]) # ResOf(proc[p].issued[i])

\* a request whose database read of the TTL extension timed out is over,
\* with that one database read issued
C21_Witness ==
    /\ variant = "ttl_extension"
    /\ \E p \in Procs :
          /\ proc[p].pc = "done"
          /\ proc[p].issued = <<"cache_get", "ext_db_get">>
          /\ Len(proc[p].returned) = 2
          /\ ~proc[p].returned[2].ok

\* C22: no call of set, delete or wipe on a KeyValueStorage of
\* cache_ttl_extension.py raises, whatever the key and the state of the
\* store; a delete of a key the store does not hold leaves the store as it
\* was.
C22_StoreOpsTotal ==
    variant = "ttl_extension" =>
       /\ ~raised
       /\ (lastcall.op = "delete"
              /\ ~DictHas(lastcall.before[lastcall.r].values, lastcall.k)) =>
             store = lastcall.before

\* every request that was spawned is over, its row recorded
AllOver ==
    \A p \in Procs :
       proc[p].pc # "idle" => (proc[p].pc = "done" /\ proc[p].rec > 0)

\* no wait for a slot has lasted longer than the timeout of the resource
WaitBounded ==
    \A p \in Procs :
       proc[p].ph = "wait" => now <= proc[p].asked + Timeout(ResOf(proc[p].pc))

\* C23: in a run of cache_ttl_extension.py that lasts long enough, a wait
\* for a slot never lasts longer than the timeout of the resource, and
\* every request that was spawned is eventually over, for good, with its
\* row recorded, also while requests of calls that timed out keep slots
\* occupied.
C23_Terminates == []WaitBounded /\ <>[]AllOver

\* a request that is over after a Timeout, while the slot it waited for
\* is held by the request of a call that timed out
C23_Witness ==
    \E p, q \in Procs :
       /\ proc[p].pc = "done"
       /\ ~proc[p].returned[Len(proc[p].returned)].ok
       /\ proc[p].rec > 0
       /\ proc[q].pc = "done"
       /\ \E i \in 1..Len(proc[q].returned) :
             /\ ~proc[q].returned[i].ok
             /\ proc[q].returned[i].call = proc[p].returned[Len(proc[p].returned)].call
             /\ InSeq(resource[ResOf(proc[q].returned[i].call)].users,
                      proc[q].returned[i].req)
             /\ proc[q].returned[i].at < proc[p].returned[Len(proc[p].returned)].at

\* C24: in a run of cache_ttl_extension.py, after every step,
\* ok + fails <= len(stats.data) <= requests; no step decreases requests,
\* ok, fails or len(stats.data), none increases one of them by more than 1,
\* and the rows already in stats.data stay as they are.
C24_Counters ==
    [][variant = "ttl_extension" =>
         /\ stats'.ok + stats'.fails <= Len(stats'.data)
         /\ Len(stats'.data) <= stats'.requests
         /\ stats'.requests \in {stats.requests, stats.requests + 1}
         /\ stats'.ok \in {stats.ok, stats.ok + 1}
         /\ stats'.fails \in {stats.fails, stats.fails + 1}
         /\ Len(stats'.data) \in {Len(stats.data), Len(stats.data) + 1}
         /\ SubSeq(stats'.data, 1, Len(stats.data)) = stats.data]_vars

\* an ok and a fail were counted, and a row that counted for neither was
\* appended
C24_Witness ==
    /\ variant = "ttl_extension"
    /\ stats.ok > 0
    /\ stats.fails > 0
    /\ stats.ok + stats.fails < Len(stats.data)
    /\ Len(stats.data) <= stats.requests

\* what the database holds for key k
DatabaseValue(k) ==
    IF DictHas(store["database"].values, k)
    THEN DictGet(store["database"].values, k) ELSE None

\* C25: in a run of cache_ttl_extension.py the database stays as the
\* prefill left it, every value the cache holds for a key is what the
\* database holds for it (None for a key that is not in the database), a
\* request for a key that is not in the database never records a cache hit,
\* and a request that returned a value returned the database's value of
\* its key.
C25_CacheMirrorsDatabase ==
    variant = "ttl_extension" =>
       /\ DictKeySet(store["database"].values) = 0..(KEY_CACHE_PREFILL_MAX - 1)
       /\ \A k \in 0..(KEY_CACHE_PREFILL_MAX - 1) :
             /\ DictGet(store["database"].values, k) = Value(k)
             /\ DictGet(store["database"].expires_at, k) = SIMULATION_TIME + 1
       /\ \A k \in DictKeySet(store["cache"].values) :
             DictGet(store["cache"].values, k) = DatabaseValue(k)
       /\ \A p \in Procs :
             /\ (~InDatabase(proc[p].key) /\ proc[p].rec > 0) =>
                   Row(p)[2] \notin {"cache_hit", "cache_hit;cache_ttl_ext"}
             /\ proc[p].pc = "done" =>
                   proc[p].ret \in {None, DatabaseValue(proc[p].key)}
             /\ (proc[p].pc = "done" /\ proc[p].rec > 0
                    /\ Row(p)[2] \in SuccessTags) =>
                   proc[p].ret = DatabaseValue(proc[p].key)

\* a request for a key that is not in the database wrote None to the cache,
\* and a later cache read of that key by another request was a miss
C25_Witness ==
    /\ variant = "ttl_extension"
    /\ \E p, q \in Procs :
          /\ p # q
          /\ ~InDatabase(proc[p].key)
          /\ proc[q].key = proc[p].key
          /\ proc[p].pc = "done"
          /\ Len(proc[p].returned) = 3
          /\ proc[p].returned[3].ok
          /\ DictHas(store["cache"].values, proc[p].key)
          /\ DictGet(store["cache"].values, proc[p].key) = None
          /\ Missed(q)
          /\ proc[q].returned[1].at > proc[p].returned[3].at

\* C26: after any sequence of set, delete and wipe on a KeyValueStorage of
\* cache_ttl_extension.py the value map and the expiration map hold the
\* same keys, and for a key that was never set, or not set again since it
\* was deleted or wiped, get returns absent and ttl returns -2.
C26_SameKeys ==
    variant = "ttl_extension" =>
       \A r \in Res :
          /\ DictKeySet(store[r].values) = DictKeySet(store[r].expires_at)
          /\ \A k \in Keys :
                lastset[r][k] = NoEntry =>
                   /\ Get(store[r], now, k) = None
                   /\ Ttl(store[r], now, k) = -2

====
